---------------------------- MODULE Spec2Model ----------------------------
(***************************************************************************)
(* tokio-too-busy: a builder configures two watermarks, an EWMA weight and *)
(* a sampling interval; build() allocates the shared estimator             *)
(* (TooBusyShared, behind an Arc), hands a Weak reference to a LoadFeeder  *)
(* and spawns it as a task.  The feeder publishes a smoothed busy ratio    *)
(* into the estimator's atomic cell on every tick; handles (TooBusy) read  *)
(* the cell and take a probabilistic too-busy decision.                    *)
(*                                                                         *)
(* Numbers.  u32 values are naturals.  A Duration is a natural number of   *)
(* microseconds.  An f32 is a fixed-point number: the integer n stands for *)
(* n / FScale, and every multiplication and division rounds to the nearest *)
(* unit, as the floating-point operation rounds to the nearest float.      *)
(***************************************************************************)
EXTENDS Integers, Naturals, FiniteSets, Sequences, TLC

VARIABLES
    phase,      \* "builder" | "aborted" (a setter's assert! failed) | "built"
    builder,    \* the TooBusyBuilder value being threaded through the setters
    lastCall,   \* the builder method called last: [op, arg]
    handles,    \* the live TooBusy values (handle ids); each owns one Arc
    shared,     \* the TooBusyShared allocation
    feeder,     \* the spawned task: LoadFeeder fields and run()'s locals
    ticks,      \* number of ticks that have published
    call        \* the last eval() / ratio_busy_ewma() made through a handle

vars == <<phase, builder, lastCall, handles, shared, feeder, ticks, call>>

(***************************************************************************)
(* Bounds of the model.                                                    *)
(***************************************************************************)
MaxTicks == 3
MaxHandles == 2
MaxRatio == 101
MaxDraw == 120
LoadTicks == 50

\* units of an f32 per 1.0
FScale == 10 * 10 * 10

\* Arguments the callers pass (Durations in microseconds, f32 in 1/FScale).
WatermarkArgs == {0, 96, 99, 150}
IntervalArgs == {0, 10000000}
AlphaArgs == {-100, 0, 100, 900, 1000}
MainDraws == {0, 99}
\* Readings of the runtime's averaged cumulative busy time (milliseconds).
InitialBusy == {250}
BusyDeltas == {0, 5000, 11000}
\* Inputs of the decision function and of the EWMA step taken on their own.
EvalWatermarks == {0, 65, 66, 80, 90, 100}
EwmaIntervals == {500, 5000000, 10000000}
EwmaAlphas == {100, 500, 900}
EwmaOld == {p * FScale : p \in 0..100}
\* Sustained load: configurations, and the busy time per tick while the load
\* is high and after it has dropped.
LoadWatermarks == {<<65, 66>>, <<85, 95>>}
LoadIntervals == {0, 7000000, 10000000}
LoadAlphas == {100, 900}
HighLoadDelta == 6700
LowLoadDelta == 5000

NoCall == [op |-> "none", handle |-> 0, ratio |-> 0, draw |-> 0, result |-> FALSE]

(***************************************************************************)
(* f32 arithmetic.                                                         *)
(***************************************************************************)
\* a * b, rounded to nearest
FMul(a, b) == (a * b + FScale \div 2) \div FScale

\* the f32 quotient of two integers n / d, d > 0, rounded to nearest
FDiv(n, d) == (2 * n * FScale + d) \div (2 * d)

\* f32 as u32: truncation toward zero (the values here are never negative)
AsU32(f) == f \div FScale

Min(a, b) == IF a <= b THEN a ELSE b

\* Duration::as_millis
as_millis(d) == d \div 1000

(***************************************************************************)
(* TooBusyBuilder                                                          *)
(***************************************************************************)
TooBusyBuilder_default ==
    [interval |-> 1000000, low_watermark |-> 85, high_watermark |-> 95,
     ewma_alpha |-> FScale \div 10]

\* a mutant: the comparison admits equality
low_watermark_assert_le(self, x) == x <= self.high_watermark

low_watermark_assert(self, x) == x < self.high_watermark

\* a mutant: the assertion is missing
high_watermark_assert_none(self, y) == TRUE

\* a mutant: the comparison admits equality
high_watermark_assert_ge(self, y) == y >= self.low_watermark

\* a mutant: the new value is compared with the field it replaces
high_watermark_assert_vs_high(self, y) == y > self.high_watermark

high_watermark_assert(self, y) == y > self.low_watermark

ewma_alpha_assert(self, a) == a > 0 /\ a < FScale

Unspawned ==
    [pc |-> "unspawned", interval |-> 0, ewma_alpha |-> 0, ratio_busy_ewma |-> 0,
     latest_total_busy_accumulated |-> 0, too_busy_shared |-> FALSE,
     metrics |-> 0]

\* no allocation: before build(), and after the last Arc is dropped
Freed ==
    [alloc |-> FALSE, low_watermark |-> 0, high_watermark |-> 0,
     ratio_busy_ewma |-> 0]

Init ==
    /\ phase = "builder"
    /\ builder = TooBusyBuilder_default
    /\ lastCall = [op |-> "builder", arg |-> 0]
    /\ handles = {}
    /\ shared = Freed
    /\ feeder = Unspawned
    /\ ticks = 0
    /\ call = NoCall

TooBusyBuilder_interval(i) ==
    /\ phase = "builder"
    /\ lastCall' = [op |-> "interval", arg |-> i]
    /\ builder' = [builder EXCEPT !.interval = i]
    /\ UNCHANGED <<phase, handles, shared, feeder, ticks, call>>

TooBusyBuilder_low_watermark(x) ==
    /\ phase = "builder"
    /\ lastCall' = [op |-> "low_watermark", arg |-> x]
    /\ IF low_watermark_assert(builder, x)
          THEN /\ builder' = [builder EXCEPT !.low_watermark = x]
               /\ phase' = phase
          ELSE /\ phase' = "aborted"
               /\ builder' = builder
    /\ UNCHANGED <<handles, shared, feeder, ticks, call>>

TooBusyBuilder_high_watermark(y) ==
    /\ phase = "builder"
    /\ lastCall' = [op |-> "high_watermark", arg |-> y]
    /\ IF high_watermark_assert(builder, y)
          THEN /\ builder' = [builder EXCEPT !.high_watermark = y]
               /\ phase' = phase
          ELSE /\ phase' = "aborted"
               /\ builder' = builder
    /\ UNCHANGED <<handles, shared, feeder, ticks, call>>

TooBusyBuilder_ewma_alpha(a) ==
    /\ phase = "builder"
    /\ lastCall' = [op |-> "ewma_alpha", arg |-> a]
    /\ IF ewma_alpha_assert(builder, a)
          THEN /\ builder' = [builder EXCEPT !.ewma_alpha = a]
               /\ phase' = phase
          ELSE /\ phase' = "aborted"
               /\ builder' = builder
    /\ UNCHANGED <<handles, shared, feeder, ticks, call>>

TooBusyShared_new(low, high) ==
    [alloc |-> TRUE, low_watermark |-> low, high_watermark |-> high,
     ratio_busy_ewma |-> 0]

LoadFeeder_new(i, a) ==
    [pc |-> "spawned", interval |-> i, ewma_alpha |-> a, ratio_busy_ewma |-> 0,
     latest_total_busy_accumulated |-> 0, too_busy_shared |-> FALSE,
     metrics |-> 0]

\* build(): allocate the estimator, spawn the feeder task, return one handle
TooBusyBuilder_build ==
    /\ phase = "builder"
    /\ phase' = "built"
    /\ lastCall' = [op |-> "build", arg |-> 0]
    /\ shared' = TooBusyShared_new(builder.low_watermark, builder.high_watermark)
    /\ feeder' = LoadFeeder_new(builder.interval, builder.ewma_alpha)
    /\ handles' = {1}
    /\ UNCHANGED <<builder, ticks, call>>

(***************************************************************************)
(* TooBusyShared                                                           *)
(***************************************************************************)
\* a mutant: no early return below the low watermark, the ramp starts at 0
calculate_proabilistic_too_busy_ramp_from_zero(self, draw, ratio_busy_ewma) ==
    IF ratio_busy_ewma >= self.high_watermark
      THEN TRUE
      ELSE draw % 100 < (ratio_busy_ewma * 100) \div self.high_watermark

\* a mutant: strict comparison with the high watermark, percentage kept in [0, 99]
calculate_proabilistic_too_busy_gt_high(self, draw, ratio_busy_ewma) ==
    IF ratio_busy_ewma < self.low_watermark
      THEN FALSE
      ELSE IF ratio_busy_ewma > self.high_watermark
        THEN TRUE
        ELSE LET max_range == self.high_watermark - self.low_watermark
                 percentage ==
                     Min(99, ((ratio_busy_ewma - self.low_watermark) * 100) \div max_range)
             IN  draw % 100 < percentage

\* a mutant: the draw is compared with <=
calculate_proabilistic_too_busy_le(self, draw, ratio_busy_ewma) ==
    IF ratio_busy_ewma < self.low_watermark
      THEN FALSE
      ELSE IF ratio_busy_ewma >= self.high_watermark
        THEN TRUE
        ELSE LET max_range == self.high_watermark - self.low_watermark
                 percentage ==
                     ((ratio_busy_ewma - self.low_watermark) * 100) \div max_range
             IN  draw % 100 <= percentage

\* draw is the value of rng.gen::<u32>().  In the band ratio - low < high - low,
\* and the cell never holds more than 100, so the u32 product does not wrap.
calculate_proabilistic_too_busy(self, draw, ratio_busy_ewma) ==
    IF ratio_busy_ewma < self.low_watermark
      THEN FALSE
      ELSE IF ratio_busy_ewma >= self.high_watermark
        THEN TRUE
        ELSE LET max_range == self.high_watermark - self.low_watermark
                 percentage ==
                     ((ratio_busy_ewma - self.low_watermark) * 100) \div max_range
             IN  draw % 100 < percentage

(***************************************************************************)
(* TooBusy (the handle)                                                    *)
(***************************************************************************)
\* a mutant: the cell is read with a store (swap(0))
TooBusy_eval_swap(h, d) ==
    /\ h \in handles
    /\ call' = [op |-> "eval", handle |-> h, ratio |-> shared.ratio_busy_ewma,
                draw |-> d,
                result |-> calculate_proabilistic_too_busy(
                               shared, d, shared.ratio_busy_ewma)]
    /\ shared' = [shared EXCEPT !.ratio_busy_ewma = 0]
    /\ UNCHANGED <<phase, builder, lastCall, handles, feeder, ticks>>

\* eval(): one relaxed load of the cell, one draw, the decision
TooBusy_eval(h, d) ==
    /\ h \in handles
    /\ call' = [op |-> "eval", handle |-> h, ratio |-> shared.ratio_busy_ewma,
                draw |-> d,
                result |-> calculate_proabilistic_too_busy(
                               shared, d, shared.ratio_busy_ewma)]
    /\ UNCHANGED <<phase, builder, lastCall, handles, shared, feeder, ticks>>

\* a mutant: the reader bumps the cell (fetch_add(1))
TooBusy_ratio_busy_ewma_fetch_add(h) ==
    /\ h \in handles
    /\ call' = [op |-> "ratio_busy_ewma", handle |-> h,
                ratio |-> shared.ratio_busy_ewma, draw |-> 0, result |-> FALSE]
    /\ shared' = [shared EXCEPT !.ratio_busy_ewma = @ + 1]
    /\ UNCHANGED <<phase, builder, lastCall, handles, feeder, ticks>>

\* ratio_busy_ewma(): one relaxed load of the cell
TooBusy_ratio_busy_ewma(h) ==
    /\ h \in handles
    /\ call' = [op |-> "ratio_busy_ewma", handle |-> h,
                ratio |-> shared.ratio_busy_ewma, draw |-> 0, result |-> FALSE]
    /\ UNCHANGED <<phase, builder, lastCall, handles, shared, feeder, ticks>>

\* a mutant: the clone gets an estimator of its own, made from the same
\* watermarks (the cell the handles read starts again at 0)
TooBusy_clone_new_estimator(h) ==
    /\ h \in handles
    /\ Cardinality(handles) < MaxHandles
    /\ LET n == CHOOSE i \in 1..MaxHandles :
                     i \notin handles /\ \A j \in 1..(i - 1) : j \in handles
       IN  handles' = handles \cup {n}
    /\ shared' = TooBusyShared_new(shared.low_watermark, shared.high_watermark)
    /\ UNCHANGED <<phase, builder, lastCall, feeder, ticks, call>>

\* clone(): one more Arc to the same allocation
TooBusy_clone(h) ==
    /\ h \in handles
    /\ Cardinality(handles) < MaxHandles
    /\ LET n == CHOOSE i \in 1..MaxHandles :
                     i \notin handles /\ \A j \in 1..(i - 1) : j \in handles
       IN  handles' = handles \cup {n}
    /\ UNCHANGED <<phase, builder, lastCall, shared, feeder, ticks, call>>

\* Arc strong count
strong_count == Cardinality(handles) + (IF feeder.too_busy_shared THEN 1 ELSE 0)

\* dropping a TooBusy drops its Arc; the last Arc frees the allocation
TooBusy_drop(h) ==
    /\ h \in handles
    /\ handles' = handles \ {h}
    /\ shared' = IF strong_count = 1 THEN Freed ELSE shared
    /\ UNCHANGED <<phase, builder, lastCall, feeder, ticks, call>>

(***************************************************************************)
(* LoadFeeder                                                              *)
(***************************************************************************)
\* a mutant: the weights are swapped (alpha weights the new sample)
calculate_ratio_busy_ewma_swapped(self, busy, ratio_busy_ewma) ==
    LET ms == as_millis(self.interval)
        ratio_busy ==
            IF ms = 0 THEN 100 * FScale
                      ELSE Min(100 * FScale, FDiv(busy, ms) * 100)
    IN  FMul(FScale - self.ewma_alpha, ratio_busy_ewma)
          + FMul(self.ewma_alpha, ratio_busy)

\* a mutant: the instantaneous ratio is not clamped
calculate_ratio_busy_ewma_unclamped(self, busy, ratio_busy_ewma) ==
    LET ms == as_millis(self.interval)
        ratio_busy ==
            IF ms = 0 THEN 100 * FScale ELSE FDiv(busy, ms) * 100
    IN  FMul(self.ewma_alpha, ratio_busy_ewma)
          + FMul(FScale - self.ewma_alpha, ratio_busy)

\* a mutant: the quotient is taken in integers before the conversion to f32
calculate_ratio_busy_ewma_intdiv(self, busy, ratio_busy_ewma) ==
    LET ms == as_millis(self.interval)
        ratio_busy ==
            IF ms = 0 THEN 100 * FScale
                      ELSE Min(100 * FScale, (busy \div ms) * FScale * 100)
    IN  FMul(self.ewma_alpha, ratio_busy_ewma)
          + FMul(FScale - self.ewma_alpha, ratio_busy)

\* busy in milliseconds.  An interval under one millisecond has as_millis() = 0:
\* the f32 quotient is then +inf (or NaN for busy = 0), and f32::min(100.0, _)
\* is 100.0 in both cases.
calculate_ratio_busy_ewma(self, busy, ratio_busy_ewma) ==
    LET ms == as_millis(self.interval)
        ratio_busy ==
            IF ms = 0 THEN 100 * FScale
                      ELSE Min(100 * FScale, FDiv(busy, ms) * 100)
    IN  FMul(self.ewma_alpha, ratio_busy_ewma)
          + FMul(FScale - self.ewma_alpha, ratio_busy)

\* run(), up to the loop: interval_at panics on a zero period (the task ends);
\* otherwise the baseline reading b0 of the busy time is taken
LoadFeeder_run_start(b0) ==
    /\ feeder.pc = "spawned"
    /\ feeder' = IF feeder.interval = 0
                   THEN [feeder EXCEPT !.pc = "panicked"]
                   ELSE [feeder EXCEPT !.pc = "await",
                                       !.latest_total_busy_accumulated = b0,
                                       !.metrics = b0]
    /\ UNCHANGED <<phase, builder, lastCall, handles, shared, ticks, call>>

\* a mutant: a failed upgrade skips the iteration instead of leaving the loop
LoadFeeder_run_upgrade_continue ==
    /\ feeder.pc = "await"
    /\ strong_count > 0
    /\ feeder' = [feeder EXCEPT !.pc = "upgraded", !.too_busy_shared = TRUE]
    /\ UNCHANGED <<phase, builder, lastCall, handles, shared, ticks, call>>

\* interval.tick().await returns; self.inner.upgrade()
LoadFeeder_run_upgrade ==
    /\ feeder.pc = "await"
    /\ \/ /\ strong_count > 0
          /\ feeder' = [feeder EXCEPT !.pc = "upgraded", !.too_busy_shared = TRUE]
       \/ /\ strong_count = 0
          /\ feeder' = [feeder EXCEPT !.pc = "done"]
    /\ UNCHANGED <<phase, builder, lastCall, handles, shared, ticks, call>>

\* a mutant: the upgraded Arc outlives the iteration
LoadFeeder_run_publish_keeps_arc(d) ==
    /\ feeder.pc = "upgraded"
    /\ LET total_busy_accumulated == feeder.metrics + d
           total_busy_since_last_iteration ==
               total_busy_accumulated - feeder.latest_total_busy_accumulated
           ratio_busy_ewma ==
               calculate_ratio_busy_ewma(
                   feeder, total_busy_since_last_iteration, feeder.ratio_busy_ewma)
       IN  /\ feeder' = [feeder EXCEPT
                            !.pc = "await",
                            !.latest_total_busy_accumulated = total_busy_accumulated,
                            !.metrics = total_busy_accumulated,
                            !.ratio_busy_ewma = ratio_busy_ewma]
           /\ shared' = [shared EXCEPT !.ratio_busy_ewma = AsU32(ratio_busy_ewma)]
    /\ ticks' = ticks + 1
    /\ UNCHANGED <<phase, builder, lastCall, handles, call>>

\* a mutant: the next EWMA step starts from the published integer
LoadFeeder_run_publish_from_cell(d) ==
    /\ feeder.pc = "upgraded"
    /\ LET total_busy_accumulated == feeder.metrics + d
           total_busy_since_last_iteration ==
               total_busy_accumulated - feeder.latest_total_busy_accumulated
           ratio_busy_ewma ==
               calculate_ratio_busy_ewma(
                   feeder, total_busy_since_last_iteration,
                   shared.ratio_busy_ewma * FScale)
       IN  /\ feeder' = [feeder EXCEPT
                            !.pc = "await",
                            !.latest_total_busy_accumulated = total_busy_accumulated,
                            !.metrics = total_busy_accumulated,
                            !.ratio_busy_ewma = ratio_busy_ewma,
                            !.too_busy_shared = FALSE]
           /\ shared' = IF handles = {}
                          THEN Freed
                          ELSE [shared EXCEPT
                                  !.ratio_busy_ewma = AsU32(ratio_busy_ewma)]
    /\ ticks' = ticks + 1
    /\ UNCHANGED <<phase, builder, lastCall, handles, call>>

\* the rest of the iteration: the busy time read is the previous reading plus d;
\* the new EWMA is stored in the cell; the upgraded Arc is dropped at the end
\* of the iteration (freeing the allocation if it was the last)
LoadFeeder_run_publish(d) ==
    /\ feeder.pc = "upgraded"
    /\ LET total_busy_accumulated == feeder.metrics + d
           total_busy_since_last_iteration ==
               total_busy_accumulated - feeder.latest_total_busy_accumulated
           ratio_busy_ewma ==
               calculate_ratio_busy_ewma(
                   feeder, total_busy_since_last_iteration, feeder.ratio_busy_ewma)
       IN  /\ feeder' = [feeder EXCEPT
                            !.pc = "await",
                            !.latest_total_busy_accumulated = total_busy_accumulated,
                            !.metrics = total_busy_accumulated,
                            !.ratio_busy_ewma = ratio_busy_ewma,
                            !.too_busy_shared = FALSE]
           /\ shared' = IF handles = {}
                          THEN Freed
                          ELSE [shared EXCEPT
                                  !.ratio_busy_ewma = AsU32(ratio_busy_ewma)]
    /\ ticks' = ticks + 1
    /\ UNCHANGED <<phase, builder, lastCall, handles, call>>

(***************************************************************************)
(* The program: a builder chain, then the handles and the feeder task      *)
(* running concurrently.                                                   *)
(***************************************************************************)
BuilderNext ==
    \/ \E i \in IntervalArgs : TooBusyBuilder_interval(i)
    \/ \E x \in WatermarkArgs : TooBusyBuilder_low_watermark(x)
    \/ \E y \in WatermarkArgs : TooBusyBuilder_high_watermark(y)
    \/ \E a \in AlphaArgs : TooBusyBuilder_ewma_alpha(a)
    \/ TooBusyBuilder_build

HandleNext ==
    \/ \E h \in 1..MaxHandles, d \in MainDraws : TooBusy_eval(h, d)
    \/ \E h \in 1..MaxHandles : TooBusy_ratio_busy_ewma(h)
    \/ \E h \in 1..MaxHandles : TooBusy_clone(h)
    \/ \E h \in 1..MaxHandles : TooBusy_drop(h)

\* the model follows at most cap publishing ticks; a tick on which the upgrade
\* fails is always followed
TickAllowed(cap) == ticks < cap \/ strong_count = 0

FeederNext ==
    \/ \E b0 \in InitialBusy : LoadFeeder_run_start(b0)
    \/ TickAllowed(MaxTicks) /\ LoadFeeder_run_upgrade
    \/ \E d \in BusyDeltas : LoadFeeder_run_publish(d)

Next == BuilderNext \/ HandleNext \/ FeederNext

Spec == Init /\ [][Next]_vars

(***************************************************************************)
(* The life of one estimator from build() on, under the scheduling the     *)
(* runtime provides: the feeder task is polled whenever its timer has      *)
(* fired.  Handles are cloned and dropped; eval() and ratio_busy_ewma()    *)
(* only load the cell and are left out.                                    *)
(***************************************************************************)
LiveInit ==
    /\ phase = "built"
    /\ \E i \in IntervalArgs \cup {TooBusyBuilder_default.interval},
          a \in {x \in AlphaArgs : ewma_alpha_assert(TooBusyBuilder_default, x)} :
          builder = [TooBusyBuilder_default EXCEPT !.interval = i, !.ewma_alpha = a]
    /\ lastCall = [op |-> "build", arg |-> 0]
    /\ handles = {1}
    /\ shared = TooBusyShared_new(builder.low_watermark, builder.high_watermark)
    /\ feeder = LoadFeeder_new(builder.interval, builder.ewma_alpha)
    /\ ticks = 0
    /\ call = NoCall

LiveNext ==
    \/ \E h \in 1..MaxHandles : TooBusy_clone(h)
    \/ \E h \in 1..MaxHandles : TooBusy_drop(h)
    \/ FeederNext

LiveSpec == LiveInit /\ [][LiveNext]_vars /\ WF_vars(FeederNext)

(***************************************************************************)
(* The decision function on its own: any estimator the builder can make,   *)
(* any value in the cell, any draw.                                        *)
(***************************************************************************)
EvalInit ==
    /\ phase = "built"
    /\ builder = TooBusyBuilder_default
    /\ lastCall = [op |-> "build", arg |-> 0]
    /\ handles = {1}
    /\ \E low \in EvalWatermarks, high \in EvalWatermarks, r \in 0..MaxRatio :
          /\ low < high
          /\ shared = [TooBusyShared_new(low, high) EXCEPT !.ratio_busy_ewma = r]
    /\ feeder = [LoadFeeder_new(builder.interval, builder.ewma_alpha)
                   EXCEPT !.pc = "await"]
    /\ ticks = 0
    /\ call = NoCall

EvalNext == call.op = "none" /\ \E d \in 0..MaxDraw : TooBusy_eval(1, d)

SpecEval == EvalInit /\ [][EvalNext]_vars

(***************************************************************************)
(* One iteration of the feeder's loop on its own: any weight, any previous *)
(* smoothed value, any reading.                                            *)
(***************************************************************************)
EwmaInit ==
    /\ phase = "built"
    /\ builder = TooBusyBuilder_default
    /\ lastCall = [op |-> "build", arg |-> 0]
    /\ handles = {1}
    /\ \E i \in EwmaIntervals, a \in EwmaAlphas, old \in EwmaOld :
          /\ feeder = [LoadFeeder_new(i, a) EXCEPT
                          !.pc = "upgraded", !.too_busy_shared = TRUE,
                          !.ratio_busy_ewma = old]
          /\ shared = [TooBusyShared_new(builder.low_watermark,
                                         builder.high_watermark)
                         EXCEPT !.ratio_busy_ewma = AsU32(old)]
    /\ ticks = 0
    /\ call = NoCall

EwmaNext == \E d \in BusyDeltas : LoadFeeder_run_publish(d)

SpecEwma == EwmaInit /\ [][EwmaNext]_vars

(***************************************************************************)
(* One estimator under sustained load: the handle is kept, every tick of   *)
(* the first LoadTicks reads HighLoadDelta more busy time, every later     *)
(* tick LowLoadDelta more.  The feeder task is polled whenever its timer   *)
(* has fired.                                                              *)
(***************************************************************************)
LoadInit ==
    /\ phase = "built"
    /\ \E w \in LoadWatermarks, i \in LoadIntervals, a \in LoadAlphas :
          builder = [interval |-> i, low_watermark |-> w[1],
                     high_watermark |-> w[2], ewma_alpha |-> a]
    /\ lastCall = [op |-> "build", arg |-> 0]
    /\ handles = {1}
    /\ shared = TooBusyShared_new(builder.low_watermark, builder.high_watermark)
    /\ feeder = LoadFeeder_new(builder.interval, builder.ewma_alpha)
    /\ ticks = 0
    /\ call = NoCall

LoadDelta == IF ticks < LoadTicks THEN HighLoadDelta ELSE LowLoadDelta

LoadNext ==
    \/ \E b0 \in InitialBusy : LoadFeeder_run_start(b0)
    \/ TickAllowed(2 * LoadTicks) /\ LoadFeeder_run_upgrade
    \/ LoadFeeder_run_publish(LoadDelta)

SpecLoad == LoadInit /\ [][LoadNext]_vars /\ WF_vars(LoadNext)

(***************************************************************************)
(* Properties                                                              *)
(***************************************************************************)
InBand(r) == shared.low_watermark <= r /\ r < shared.high_watermark

\* C1: for an estimator with low_watermark < high_watermark and a ratio below
\* the low watermark, the decision is false whatever the draw.
C1_BelowLowIsFalse ==
    (call.op = "eval" /\ shared.low_watermark < shared.high_watermark
        /\ call.ratio < shared.low_watermark)
    => call.result = FALSE

\* an eval() below the low watermark, with the draw most favourable to true
C1_Witness ==
    /\ call.op = "eval"
    /\ shared.low_watermark = 80 /\ shared.high_watermark = 90
    /\ call.ratio = 79 /\ call.draw % 100 = 0
    /\ call.result = FALSE

\* C2: for a ratio at or above the high watermark, the decision is true
\* whatever the draw.
C2_AtOrAboveHighIsTrue ==
    (call.op = "eval" /\ call.ratio >= shared.high_watermark)
    => call.result = TRUE

\* an eval() exactly at the high watermark, with the draw least favourable to true
C2_Witness ==
    /\ call.op = "eval"
    /\ shared.low_watermark = 80 /\ shared.high_watermark = 90
    /\ call.ratio = 90 /\ call.draw % 100 = 99
    /\ call.result = TRUE

\* C3: in the band low <= r < high, with the draw d reduced to [0, 100), the
\* decision is true iff d < p, p the integer quotient of (r - low) * 100 by
\* (high - low), which lies in [0, 99]; with low = 80, high = 90, r = 85 a draw
\* of 49 gives true and a draw of 50 gives false.
C3_BandDecision ==
    (call.op = "eval" /\ InBand(call.ratio))
    => LET range == shared.high_watermark - shared.low_watermark
           num == (call.ratio - shared.low_watermark) * 100
           d == call.draw % 100
       IN  /\ call.result =
                 (\E q \in 0..99 :
                     /\ q * range <= num /\ num < (q + 1) * range
                     /\ d < q)
           /\ (shared.low_watermark = 80 /\ shared.high_watermark = 90
                 /\ call.ratio = 85)
               => /\ (call.draw = 49 => call.result = TRUE)
                  /\ (call.draw = 50 => call.result = FALSE)

\* the documented midpoint case, decided false by a draw of 50
C3_Witness ==
    /\ call.op = "eval"
    /\ shared.low_watermark = 80 /\ shared.high_watermark = 90
    /\ call.ratio = 85 /\ call.draw = 50
    /\ call.result = FALSE

\* C4: low_watermark(x) with x >= the builder's high_watermark, high_watermark(y)
\* with y <= the builder's low_watermark, and ewma_alpha(a) with a <= 0 or
\* a >= 1 each abort; after an abort there is no estimator, no handle and no
\* feeder task.
C4_InvalidConfigAborts ==
    /\ [][phase = "builder" =>
            /\ \A x \in WatermarkArgs :
                 (lastCall' = [op |-> "low_watermark", arg |-> x]
                    /\ x >= builder.high_watermark) => phase' = "aborted"
            /\ \A y \in WatermarkArgs :
                 (lastCall' = [op |-> "high_watermark", arg |-> y]
                    /\ y <= builder.low_watermark) => phase' = "aborted"
            /\ \A a \in AlphaArgs :
                 (lastCall' = [op |-> "ewma_alpha", arg |-> a]
                    /\ (a <= 0 \/ a >= FScale)) => phase' = "aborted"]_vars
    /\ [](phase = "aborted" =>
            ~shared.alloc /\ handles = {} /\ feeder.pc = "unspawned")
    /\ [][phase = "aborted" => phase' = "aborted"]_vars

\* low_watermark(96) called on a builder whose high_watermark is 96 has aborted
C4_Witness ==
    /\ phase = "aborted"
    /\ lastCall = [op |-> "low_watermark", arg |-> 96]
    /\ builder.high_watermark = 96
    /\ ~shared.alloc /\ feeder.pc = "unspawned"

\* C5: after any setter calls that did not abort, the builder has
\* low_watermark < high_watermark and 0 < ewma_alpha < 1; an estimator, for as
\* long as it is allocated, holds the thresholds the builder had at build()
\* and so low_watermark < high_watermark.
C5_WatermarksOrdered ==
    /\ phase \in {"builder", "built"} =>
          /\ builder.low_watermark < builder.high_watermark
          /\ 0 < builder.ewma_alpha /\ builder.ewma_alpha < FScale
    /\ shared.alloc =>
          /\ phase = "built"
          /\ shared.low_watermark = builder.low_watermark
          /\ shared.high_watermark = builder.high_watermark
          /\ shared.low_watermark < shared.high_watermark

\* an estimator built after both watermarks were set (high first), two ticks
\* and a clone later
C5_Witness ==
    /\ shared.alloc
    /\ shared.low_watermark = 96 /\ shared.high_watermark = 99
    /\ ticks >= 2 /\ Cardinality(handles) = 2

FeederEnded == feeder.pc \in {"done", "panicked"}

\* C6: once every handle has been dropped, the feeder eventually ends (ticks
\* keep firing); the first upgrade attempted after the last drop fails and
\* leaves the loop, and from then on nothing is published.
C6_FeederEndsAfterLastDrop ==
    /\ (phase = "built" /\ handles = {}) ~> FeederEnded
    /\ [][(handles = {} /\ feeder.pc = "await" /\ feeder'.pc # "await")
            => feeder'.pc = "done"]_vars
    /\ [][FeederEnded =>
            /\ feeder' = feeder /\ ticks' = ticks
            /\ shared'.alloc => shared' = shared]_vars

\* the loop has been left after ticks that published, all handles dropped
C6_Witness ==
    /\ phase = "built" /\ handles = {}
    /\ feeder.pc = "done" /\ ticks >= 1

\* C7: the failed upgrade is the feeder's only way to end: while a handle is
\* alive the feeder task has not ended.
C7_EndsOnlyWhenAllDropped ==
    (phase = "built" /\ handles # {}) => ~FeederEnded

\* C8 as claimed: no state has zero handles while the feeder holds a strong
\* reference to a still allocated estimator.
C8_NoStrongRefWithoutHandles ==
    ~(handles = {} /\ feeder.too_busy_shared /\ shared.alloc)

\* C8: the feeder holds a strong reference only inside one iteration of its
\* loop (between the upgrade and the end of the iteration); the estimator is
\* allocated exactly while a handle exists or such an iteration is under way,
\* so with zero handles it is freed at the last drop or, if that drop falls
\* inside an iteration, at the end of that iteration.
C8_StrongRefOnlyInsideIteration ==
    phase = "built" =>
        /\ shared.alloc <=> (handles # {} \/ feeder.too_busy_shared)
        /\ feeder.too_busy_shared <=> feeder.pc = "upgraded"

\* the iteration during which the last handle was dropped has ended: the
\* estimator is gone although the feeder has not yet noticed
C8_Witness ==
    /\ phase = "built" /\ handles = {}
    /\ feeder.pc = "await" /\ ticks >= 1
    /\ ~shared.alloc

\* C9: the published ratio is an integer in [0, 100] in every state (0 until
\* the first tick publishes), and so is the feeder's own smoothed value.
C9_RatioWithin0And100 ==
    /\ shared.ratio_busy_ewma \in 0..100
    /\ 0 <= feeder.ratio_busy_ewma /\ feeder.ratio_busy_ewma <= 100 * FScale
    /\ (phase = "built" /\ ticks = 0 /\ shared.alloc) => shared.ratio_busy_ewma = 0

\* two ticks whose busy time exceeded the interval, at the default weight
C9_Witness ==
    /\ shared.alloc /\ ticks = 2
    /\ feeder.interval = 1000000 /\ feeder.ewma_alpha = FScale \div 10
    /\ feeder.latest_total_busy_accumulated >= 22000
    /\ shared.ratio_busy_ewma = 99

\* C10: an iteration with busy-time delta d replaces the smoothed value old by
\* alpha * old + (1 - alpha) * inst, inst = min(100, d / interval_ms * 100)
\* (100 when interval_ms is 0), up to the rounding of the two products; with
\* alpha = 0.1, interval = 10 s, old = 10, d = 5 s gives 46 and d = 11 s gives 91.
C10_EwmaStep ==
    [][(feeder.pc = "upgraded" /\ feeder'.pc = "await") =>
        LET d == feeder'.latest_total_busy_accumulated
                    - feeder.latest_total_busy_accumulated
            ms == feeder.interval \div 1000
            alpha == feeder.ewma_alpha
            old == feeder.ratio_busy_ewma
            new == feeder'.ratio_busy_ewma
            inst == IF ms = 0 \/ d >= ms THEN 100 * FScale
                    ELSE (d * 100 * FScale) \div ms
            exact == alpha * old + (FScale - alpha) * inst
            err == new * FScale - exact
        IN  /\ -FScale <= err /\ err <= FScale
            /\ shared'.ratio_busy_ewma = new \div FScale
            /\ (alpha = FScale \div 10 /\ feeder.interval = 10000000
                  /\ old = 10 * FScale)
                => /\ (d = 5000 => new = 46 * FScale)
                   /\ (d = 11000 => new = 91 * FScale)]_vars

\* the documented step: from 10 to 46 with half of a 10 s interval busy
C10_Witness ==
    /\ feeder.pc = "await" /\ ticks = 1
    /\ feeder.interval = 10000000 /\ feeder.ewma_alpha = FScale \div 10
    /\ feeder.latest_total_busy_accumulated = 5000
    /\ feeder.ratio_busy_ewma = 46 * FScale
    /\ shared.ratio_busy_ewma = 46

\* C11: nothing is published before the feeder's first tick: until then every
\* ratio_busy_ewma() returns 0 and every eval(), whatever the accepted
\* configuration (low_watermark = 0 included) and the draw, returns false.
C11_NothingBeforeFirstTick ==
    /\ (phase = "built" /\ ticks = 0 /\ shared.alloc) => shared.ratio_busy_ewma = 0
    /\ (call.op # "none" /\ ticks = 0) =>
          /\ call.ratio = 0
          /\ call.op = "eval" => call.result = FALSE

\* eval() on a fresh handle of an estimator whose low watermark is 0, with the
\* draw most favourable to true
C11_Witness ==
    /\ call.op = "eval" /\ ticks = 0
    /\ shared.alloc /\ shared.low_watermark = 0
    /\ call.draw = 0 /\ call.result = FALSE

\* the instantaneous ratio, in 1/FScale percent, of d ms busy in one interval
InstantRatio(d) ==
    IF feeder.interval \div 1000 = 0 \/ d >= feeder.interval \div 1000
      THEN 100 * FScale
      ELSE (d * 100 * FScale) \div (feeder.interval \div 1000)

DecisionForEveryDraw(b) ==
    \A d \in 0..MaxDraw :
        calculate_proabilistic_too_busy(shared, d, shared.ratio_busy_ewma) = b

C13_WatermarksArePercentages ==
    shared.alloc =>
        /\ shared.low_watermark \in 0..100
        /\ shared.high_watermark \in 0..100

\* C14: clone() adds one handle to the same estimator and leaves the estimator
\* and the feeder as they are (no new estimator, no new feeder); a read through
\* any live handle returns the value the cell holds, that is the value last
\* published.
C14_ClonesShareOneEstimator ==
    [][/\ (phase = "built" /\ Cardinality(handles') > Cardinality(handles)) =>
            /\ Cardinality(handles') = Cardinality(handles) + 1
            /\ handles \subseteq handles'
            /\ shared' = shared /\ shared.alloc
            /\ feeder' = feeder
       /\ (call' # call) =>
            /\ call'.handle \in handles
            /\ call'.ratio = shared.ratio_busy_ewma
            /\ (ticks >= 1 /\ ~feeder.too_busy_shared) =>
                  call'.ratio = feeder.ratio_busy_ewma \div FScale]_vars

\* the value published by a tick, read through the second of two handles
C14_Witness ==
    /\ Cardinality(handles) = 2 /\ ticks >= 1
    /\ call.op = "ratio_busy_ewma" /\ call.handle = 2
    /\ call.ratio = 90 /\ shared.ratio_busy_ewma = 90

\* the number of draws in [0, 100) for which the decision at ratio r is true:
\* the rejection percentage at r
RejectionPercentage(r) ==
    Cardinality({d \in 0..99 : calculate_proabilistic_too_busy(shared, d, r)})

\* C15: for low <= r < high the rejection percentage lies in [0, 99], equals
\* the truncated quotient of (r - low) * 100 by (high - low), is 0 at
\* r = low_watermark and does not decrease with r; so at r = low_watermark the
\* decision is false for every draw, and in the band no ratio makes it true
\* for every draw.
C15_RejectionPercentage ==
    LET r == shared.ratio_busy_ewma
        low == shared.low_watermark
        high == shared.high_watermark
    IN  InBand(r) =>
          /\ RejectionPercentage(r) \in 0..99
          /\ RejectionPercentage(r) * (high - low) <= (r - low) * 100
          /\ (r - low) * 100 < (RejectionPercentage(r) + 1) * (high - low)
          /\ r = low => RejectionPercentage(r) = 0
          /\ InBand(r + 1) => RejectionPercentage(r) <= RejectionPercentage(r + 1)
          /\ call.op = "eval" =>
                /\ call.result = (call.draw % 100 < RejectionPercentage(r))
                /\ r = low => call.result = FALSE
                /\ call.draw % 100 = 99 => call.result = FALSE

\* the top of the band 80..90: 90 draws in 100 are rejected, a draw of 99 is not
C15_Witness ==
    /\ call.op = "eval"
    /\ shared.low_watermark = 80 /\ shared.high_watermark = 90
    /\ call.ratio = 89 /\ RejectionPercentage(89) = 90
    /\ call.draw % 100 = 99 /\ call.result = FALSE


\* C16: eval() and ratio_busy_ewma() change nothing but the caller's own
\* result: a step that records a call leaves the ratio cell, the watermarks,
\* the feeder, the handles and the tick count as they were, and returns the
\* value the cell holds at that moment; both calls can be taken through every
\* live handle in every state, also in the middle of a feeder iteration.
C16_ReadsLeaveStateUnchanged ==
    /\ [](\A h \in handles :
             /\ ENABLED TooBusy_ratio_busy_ewma(h)
             /\ \A d \in MainDraws : ENABLED TooBusy_eval(h, d))
    /\ [][(call' # call) =>
             /\ UNCHANGED <<phase, builder, lastCall, handles, shared, feeder, ticks>>
             /\ call'.ratio = shared'.ratio_busy_ewma]_vars

\* a read through the second handle while the feeder is inside its second
\* iteration, holding its own strong reference
C16_Witness ==
    /\ call.op = "ratio_busy_ewma" /\ call.handle = 2
    /\ Cardinality(handles) = 2
    /\ feeder.pc = "upgraded" /\ feeder.too_busy_shared
    /\ ticks = 1 /\ call.ratio = 90 /\ shared.ratio_busy_ewma = 90


\* C17: build() spawns the one feeder task and nothing else ever spawns or
\* respawns it; the cell of a live estimator changes only in the publishing
\* step of a feeder iteration, which stores the truncated private value once
\* and counts as one tick; an iteration whose upgrade succeeded does nothing
\* else before that store; the watermarks of a live estimator never change.
C17_FeederIsTheOnlyWriter ==
    [][/\ (phase # "built" /\ phase' = "built") =>
             feeder.pc = "unspawned" /\ feeder'.pc = "spawned"
       /\ (feeder'.pc = "spawned") =>
             \/ feeder' = feeder
             \/ feeder.pc = "unspawned" /\ phase = "builder" /\ phase' = "built"
       /\ (shared.alloc /\ shared'.alloc) =>
             /\ shared'.low_watermark = shared.low_watermark
             /\ shared'.high_watermark = shared.high_watermark
             /\ (shared'.ratio_busy_ewma # shared.ratio_busy_ewma) =>
                   /\ feeder.pc = "upgraded" /\ feeder'.pc = "await"
                   /\ ticks' = ticks + 1
                   /\ shared'.ratio_busy_ewma = AsU32(feeder'.ratio_busy_ewma)
       /\ (ticks' # ticks) =>
             ticks' = ticks + 1 /\ feeder.pc = "upgraded" /\ feeder'.pc = "await"
       /\ (feeder.pc = "upgraded" /\ feeder' # feeder) =>
             ticks' = ticks + 1 /\ feeder'.pc = "await"]_vars

\* two ticks have published 90 and then 99 while two handles are alive
C17_Witness ==
    /\ phase = "built" /\ Cardinality(handles) = 2
    /\ ticks = 2 /\ feeder.pc = "await"
    /\ shared.alloc /\ shared.ratio_busy_ewma = 99
    /\ AsU32(feeder.ratio_busy_ewma) = 99


\* C18: each watermark setter is checked against the other watermark as the
\* builder holds it at that call: low_watermark(x) stores x iff
\* x < high_watermark and aborts otherwise, high_watermark(y) stores y iff
\* y > low_watermark and aborts otherwise; an aborting call stores nothing.
\* So low_watermark(96) on the default builder (high 95) aborts although
\* high_watermark(99) was to follow, while after high_watermark(99) it is
\* accepted.
C18_IncrementalValidation ==
    [][/\ (phase = "builder" /\ lastCall'.op = "low_watermark") =>
             IF lastCall'.arg < builder.high_watermark
               THEN /\ phase' = "builder"
                    /\ builder' = [builder EXCEPT !.low_watermark = lastCall'.arg]
               ELSE phase' = "aborted" /\ builder' = builder
       /\ (phase = "builder" /\ lastCall'.op = "high_watermark") =>
             IF lastCall'.arg > builder.low_watermark
               THEN /\ phase' = "builder"
                    /\ builder' = [builder EXCEPT !.high_watermark = lastCall'.arg]
               ELSE phase' = "aborted" /\ builder' = builder
       /\ (builder = TooBusyBuilder_default /\ phase = "builder"
             /\ lastCall' = [op |-> "low_watermark", arg |-> 96]) =>
             phase' = "aborted"
       /\ (builder.high_watermark = 99 /\ phase = "builder"
             /\ lastCall' = [op |-> "low_watermark", arg |-> 96]) =>
             phase' = "builder" /\ builder'.low_watermark = 96]_vars

\* low_watermark(96) as the first call on the default builder has aborted
C18_Witness ==
    /\ phase = "aborted"
    /\ lastCall = [op |-> "low_watermark", arg |-> 96]
    /\ builder = TooBusyBuilder_default


(***************************************************************************)
(* The builder chain alone, with the watermark setters called on every     *)
(* value around the defaults, then build().                                *)
(***************************************************************************)
MaxWatermark == 100

ChainWatermarkArgs == {0, 1} \cup 80..MaxWatermark

ChainNext ==
    \/ \E x \in ChainWatermarkArgs : TooBusyBuilder_low_watermark(x)
    \/ \E y \in ChainWatermarkArgs : TooBusyBuilder_high_watermark(y)
    \/ TooBusyBuilder_build

SpecChain == Init /\ [][ChainNext]_vars

\* .low_watermark(low).high_watermark(high) on the default builder passes
\* both assertions
LowThenHigh(low, high) ==
    /\ low_watermark_assert(TooBusyBuilder_default, low)
    /\ high_watermark_assert(
           [TooBusyBuilder_default EXCEPT !.low_watermark = low], high)

\* .high_watermark(high).low_watermark(low) on the default builder passes
\* both assertions
HighThenLow(low, high) ==
    /\ high_watermark_assert(TooBusyBuilder_default, high)
    /\ low_watermark_assert(
           [TooBusyBuilder_default EXCEPT !.high_watermark = high], low)

\* C19: for every pair low < high, one of the two orders of
\* low_watermark(low) and high_watermark(high) on the default builder passes
\* both assertions; the setters store what they accept, and build() hands
\* exactly the builder's pair to the estimator.
C19_EveryValidPairReachable ==
    /\ \A low \in ChainWatermarkArgs, high \in ChainWatermarkArgs :
          low < high => LowThenHigh(low, high) \/ HighThenLow(low, high)
    /\ (phase = "builder" /\ lastCall.op = "low_watermark") =>
          builder.low_watermark = lastCall.arg
    /\ (phase = "builder" /\ lastCall.op = "high_watermark") =>
          builder.high_watermark = lastCall.arg
    /\ phase = "built" =>
          /\ shared.alloc
          /\ shared.low_watermark = builder.low_watermark
          /\ shared.high_watermark = builder.high_watermark

\* the pair (96, 99), which only the order high-then-low reaches, is built
C19_Witness ==
    /\ phase = "built"
    /\ shared.low_watermark = 96 /\ shared.high_watermark = 99
    /\ ~LowThenHigh(96, 99) /\ HighThenLow(96, 99)


\* C20: the cell always holds the truncation toward zero of the feeder's
\* private smoothed value; an iteration computes the new private value from
\* the private value of the iteration before (not from the integer in the
\* cell) and from the busy time accrued since the previous reading, the first
\* one since the baseline taken when run() started; the reading of every
\* iteration replaces latest_total_busy_accumulated.
C20_PrivateValueCarried ==
    /\ [](/\ shared.alloc => shared.ratio_busy_ewma = feeder.ratio_busy_ewma \div FScale
          /\ feeder.latest_total_busy_accumulated = feeder.metrics
          /\ (ticks = 0 /\ feeder.pc \in {"await", "upgraded"}) =>
                feeder.latest_total_busy_accumulated \in InitialBusy)
    /\ [][(feeder.pc = "upgraded" /\ feeder'.pc = "await") =>
            LET d == feeder'.metrics - feeder.latest_total_busy_accumulated
                ms == feeder.interval \div 1000
                alpha == feeder.ewma_alpha
                old == feeder.ratio_busy_ewma
                new == feeder'.ratio_busy_ewma
                inst == IF ms = 0 \/ d >= ms THEN 100 * FScale
                        ELSE (d * 100 * FScale) \div ms
                exact == alpha * old + (FScale - alpha) * inst
                err == new * FScale - exact
            IN  /\ d \in BusyDeltas
                /\ -FScale <= err /\ err <= FScale
                /\ feeder'.latest_total_busy_accumulated = feeder'.metrics
                /\ shared'.alloc => shared'.ratio_busy_ewma = new \div FScale]_vars

\* three ticks of a half-busy 10 s interval with alpha = 0.1: the private
\* value went 45.0, 49.5, 49.95 and the cell holds 49
C20_Witness ==
    /\ ticks = 3 /\ feeder.pc = "await"
    /\ feeder.interval = 10000000 /\ feeder.ewma_alpha = FScale \div 10
    /\ feeder.latest_total_busy_accumulated = 15250
    /\ feeder.ratio_busy_ewma = 49950
    /\ shared.alloc /\ shared.ratio_busy_ewma = 49

=============================================================================
